---- MODULE Spec2Model ----
(***************************************************************************)
(* Cyberzilla Codex (src/codex.py): the concurrent file-processing         *)
(* pipeline.  ConcurrencyManager.get_lock, EnterpriseAnalyzer._run_tool,   *)
(* EnterpriseAnalyzer.process_file, the directory walk and the worker     *)
(* pool of EnterpriseAnalyzer.scan_directory, and run_analysis with        *)
(* generate_report and compare_and_update_history, as a state machine.     *)
(*                                                                         *)
(* A task is one call of process_file.  Tasks are numbered by their        *)
(* position in files_to_scan.  The files on disk are identified by their   *)
(* resolved absolute path; a path is a spelling of one of them.            *)
(***************************************************************************)
EXTENDS Integers, Sequences, FiniteSets, TLC

(* ------------------------------ bounds --------------------------------- *)

\* number of process_file calls of one run
NumFiles == 2
\* file contents are the numbers 0..MaxContent
MaxContent == 2
\* a tool writes at most this many lines to stderr
MaxErrLines == 1

(* ------------------------- program constants --------------------------- *)

\* AppConfig.max_workers, the size of the thread pool
max_workers == 4
\* _run_tool's result codes
NOT_FOUND == -1
TIMEOUT == -2
EXEC_ERROR == -3
\* output_lines[:5]
MAX_LINES == 5

(* ------------------------------ paths ---------------------------------- *)

\* The spellings a caller can pass.  "sub/../a.py" is a second spelling of
\* "a.py"; both name the same file and the same backup sibling.
Paths == {"a.py", "sub/../a.py", "b.py", "c.go", "d.txt"}

\* Path.suffix
suffix(p) ==
  CASE p = "a.py" -> ".py"
    [] p = "sub/../a.py" -> ".py"
    [] p = "b.py" -> ".py"
    [] p = "c.go" -> ".go"
    [] OTHER -> ".txt"

\* Path.resolve(): the absolute path of the file a spelling names
resolve(p) == IF p = "sub/../a.py" THEN "a.py" ELSE p

AbsPaths == {resolve(p) : p \in Paths}

\* self.ext_map
ext_map ==
  [e \in {".py", ".js", ".ts", ".go", ".rs", ".c", ".cpp"} |->
     CASE e = ".py" -> "python"
       [] e \in {".js", ".ts"} -> "javascript"
       [] e = ".go" -> "go"
       [] e = ".rs" -> "rust"
       [] OTHER -> "c/c++"]

\* self.ext_map.get(ext): None is modelled as "None"
lang_key(p) == IF suffix(p) \in DOMAIN ext_map THEN ext_map[suffix(p)] ELSE "None"

(* --------------------------- tool configuration ------------------------ *)

\* A tool_config entry that passed _validate_tool_map: the four required keys
\* are present, their values are whatever the configuration file holds.  The
\* command is a non-empty list ("list"), an empty list ("empty") or a string
\* ("str"), which is truthy but cannot be concatenated with a list.
Tool(name, cmd, chk, fx) == [tool |-> name, command |-> cmd, check |-> chk, fix |-> fx]

\* ConfigLoader.DEFAULT_TOOL_MAP['python']
DEFAULT_TOOL_MAP ==
  [python |-> << Tool("pylint", "list", TRUE, FALSE), Tool("black", "list", FALSE, TRUE) >>]

\* a language with two fixer entries and an entry whose command is empty
TwoFixerMap ==
  [python |-> << Tool("autopep8", "list", FALSE, TRUE), Tool("black", "list", FALSE, TRUE),
                 Tool("mypy", "empty", TRUE, FALSE), Tool("pylint", "list", TRUE, FALSE) >>]

\* "command": "black -q" and "command": "pylint" given as strings
StringCommandMap ==
  [python |-> << Tool("black", "str", FALSE, TRUE), Tool("pylint", "str", TRUE, FALSE) >>]

\* one tool that both fixes and checks
FixAndCheckMap ==
  [python |-> << Tool("ruff", "list", TRUE, TRUE) >>]

ToolMaps == {DEFAULT_TOOL_MAP, TwoFixerMap, StringCommandMap, FixAndCheckMap}

\* tool_map.get(lang_key, []) of a language that has no entry
NoChain == << >>

(* ------------------------------ texts ---------------------------------- *)

\* A text is a sequence of characters; NL is the line break.
NL == "\n"

\* n lines, each ended by a line break
RECURSIVE Lines(_)
Lines(n) == IF n = 0 THEN << >> ELSE Lines(n - 1) \o << "e", NL >>

\* what a tool can write to stdout and to stderr
OutTexts == { << >>, << "o", NL >> }
ErrTexts == { Lines(n) : n \in 0..MaxErrLines } \cup { << "e" >> }

\* str.splitlines()
RECURSIVE splitlines(_)
splitlines(s) ==
  IF s = << >> THEN << >>
  ELSE LET brk == { k \in 1..Len(s) : s[k] = NL }
           k == IF brk = {} THEN Len(s) + 1
                ELSE CHOOSE m \in brk : \A n \in brk : m <= n
       IN << SubSeq(s, 1, k - 1) >> \o splitlines(SubSeq(s, k + 1, Len(s)))

\* the messages _run_tool builds itself, each one line without a line break
MsgTimeout == << "Analysis timed out" >>
MsgExecFailed == << "Tool execution failed" >>

(* ------------------------------ files ---------------------------------- *)

Contents == 0..MaxContent
\* the content every source file has when the run starts
Original == 1
\* the empty file shutil.copyfile leaves when it fails after creating its target
Truncated == 0
\* backup_path.exists() is false
Absent == -1
\* the content of a backup a crashed earlier run left behind
Stale == MaxContent

\* the futures of a run are numbered 1..NumFiles at most
Futures == 1..NumFiles
LockIds == 1..NumFiles
NoLock == 0
NoTask == 0

(* --------------------------- file operations --------------------------- *)

\* shutil.copyfile(file_path, backup_path): the copy is made, or it fails
\* before the target is opened, or it fails after the target was created
copyfile(faults, cont, bk) ==
  { [ok |-> TRUE, backup |-> cont] }
    \cup IF faults THEN { [ok |-> FALSE, backup |-> bk],
                          [ok |-> FALSE, backup |-> Truncated] }
         ELSE {}

\* a move that deletes the backup without writing it over the file
move_discarding(faults, bk, cont) ==
  { [ok |-> TRUE, content |-> cont, backup |-> Absent] }
    \cup IF faults THEN { [ok |-> FALSE, content |-> cont, backup |-> bk] } ELSE {}

\* shutil.move(backup_path, file_path): os.rename succeeds; or os.rename fails
\* and the fallback copies the backup over the file and then fails to unlink
\* the backup; or nothing can be done.  The last two raise.
move(faults, bk, cont) ==
  { [ok |-> TRUE, content |-> bk, backup |-> Absent] }
    \cup IF faults THEN { [ok |-> FALSE, content |-> bk, backup |-> bk],
                          [ok |-> FALSE, content |-> cont, backup |-> bk] }
         ELSE {}

\* os.remove(backup_path): the backup is deleted, or the call raises
remove(faults, bk) ==
  { [ok |-> TRUE, backup |-> Absent] }
    \cup IF faults THEN { [ok |-> FALSE, backup |-> bk] } ELSE {}

(* ------------------------------ _run_tool ------------------------------ *)

\* what subprocess.run does: the tool ends with a return code (negative when
\* a signal killed it), or the timeout expires, or the call raises
RetCodes == {-1, 0, 1}
RunResults ==
  { [kind |-> "exit", code |-> c] : c \in RetCodes }
    \cup { [kind |-> "timeout", code |-> 0], [kind |-> "error", code |-> 0] }

\* _run_tool returns (code, ...) with the file and the backup left as given
Return(c, cont, bk, rb) ==
  [raised |-> FALSE, code |-> c, content |-> cont, backup |-> bk, rolled_back |-> rb]

\* an exception leaves _run_tool
Raise(cont, bk) ==
  [raised |-> TRUE, code |-> 0, content |-> cont, backup |-> bk, rolled_back |-> FALSE]

\* `shutil.move(backup_path, file_path); return c, "", "... rolled back"` inside
\* an except clause: a failing move leaves _run_tool as an exception
rollback(faults, c, cont, bk) ==
  { IF m.ok THEN Return(c, m.content, m.backup, TRUE) ELSE Raise(m.content, m.backup) :
      m \in move(faults, bk, cont) }

\* a handler that reports the timeout and leaves the file as the tool left it
except_TimeoutExpired_no_rollback(faults, is_fixer, cont, bk) ==
  { Return(TIMEOUT, cont, bk, FALSE) }

\* except subprocess.TimeoutExpired
except_TimeoutExpired(faults, is_fixer, cont, bk) ==
  IF is_fixer /\ bk # Absent THEN rollback(faults, TIMEOUT, cont, bk)
  ELSE { Return(TIMEOUT, cont, bk, FALSE) }

\* a handler that moves the backup over the file whatever the role of the tool
except_Exception_any_role(faults, is_fixer, cont, bk) ==
  IF bk # Absent THEN rollback(faults, EXEC_ERROR, cont, bk)
  ELSE { Return(EXEC_ERROR, cont, bk, FALSE) }

\* except Exception
except_Exception(faults, is_fixer, cont, bk) ==
  IF is_fixer /\ bk # Absent THEN rollback(faults, EXEC_ERROR, cont, bk)
  ELSE { Return(EXEC_ERROR, cont, bk, FALSE) }

\* the statements after subprocess.run returned with returncode c; they are
\* inside the try block, so an exception of move or remove reaches
\* `except Exception`
after_run(faults, is_fixer, c, cont, bk) ==
  IF is_fixer /\ c # 0 /\ bk # Absent
  THEN UNION { IF m.ok THEN { Return(c, m.content, m.backup, TRUE) }
               ELSE except_Exception(faults, is_fixer, m.content, m.backup) :
                 m \in move(faults, bk, cont) }
  ELSE IF is_fixer /\ bk # Absent
  THEN UNION { IF d.ok THEN { Return(c, cont, d.backup, FALSE) }
               ELSE except_Exception(faults, is_fixer, cont, d.backup) :
                 d \in remove(faults, bk) }
  ELSE { Return(c, cont, bk, FALSE) }

\* everything _run_tool does once subprocess.run has ended with r
finish_run(faults, is_fixer, r, cont, bk) ==
  CASE r.kind = "exit" -> after_run(faults, is_fixer, r.code, cont, bk)
    [] r.kind = "timeout" -> except_TimeoutExpired(faults, is_fixer, cont, bk)
    [] OTHER -> except_Exception(faults, is_fixer, cont, bk)

(* ---------------------------- environment ------------------------------ *)

\* The environment of a run: whether file operations can fail, whether a
\* tool can be missing from the search path, how a started tool can end,
\* what a fixer can leave in the file, what a tool can print, and what a
\* crashed earlier run can have left at the backup path of a.py.
AnyEnv ==
  [faults |-> TRUE, missing |-> TRUE, results |-> RunResults, writes |-> Contents,
   outs |-> OutTexts, errs |-> ErrTexts, orphans |-> {Absent, Stale}]

\* the environment of the spec's scenarios: every tool is installed, no file
\* operation fails, a tool ends with 0 or 1 and prints nothing, no orphan
CalmEnv ==
  [faults |-> FALSE, missing |-> FALSE,
   results |-> { r \in RunResults : r.kind = "exit" /\ r.code \in {0, 1} },
   writes |-> {MaxContent}, outs |-> { << >> }, errs |-> { << >> },
   orphans |-> {Absent}]

\* shutil.which(cmd[0]) finds the tool or not
which(e) == IF e.missing THEN BOOLEAN ELSE {TRUE}

\* the spellings with a tool chain
PythonPaths == { p \in Paths : suffix(p) = ".py" }

(* ---------------------------- process_file ----------------------------- *)

\* the test without `lang_key not in self.tool_map`
unsupported_unmapped_only(tm, p) == lang_key(p) = "None"

\* `not lang_key or lang_key not in self.tool_map`
unsupported(tm, p) == lang_key(p) = "None" \/ lang_key(p) \notin DOMAIN tm

\* self.tool_map.get(lang_key, [])
chain(tm, p) == IF lang_key(p) \in DOMAIN tm THEN tm[lang_key(p)] ELSE NoChain

\* tool_config.get('fix') and tool_config.get('command')
is_fix_entry(tc) == tc.fix /\ tc.command # "empty"

\* tool_config.get('check') and tool_config.get('command')
is_check_entry(tc) == tc.check /\ tc.command # "empty"

\* the next entry at or after position i the fix loop does not skip,
\* Len(ch) + 1 when the loop ends
next_fix(ch, i) ==
  LET js == { j \in i..Len(ch) : is_fix_entry(ch[j]) }
  IN IF js = {} THEN Len(ch) + 1 ELSE CHOOSE j \in js : \A k \in js : j <= k

\* the same for the check loop
next_check(ch, i) ==
  LET js == { j \in i..Len(ch) : is_check_entry(ch[j]) }
  IN IF js = {} THEN Len(ch) + 1 ELSE CHOOSE j \in js : \A k \in js : j <= k

\* an entry of AnalysisResult.errors: "Exit code {code} from {tool}" or
\* "[{tool}] {line}"
ExitError(tool, c) == [kind |-> "exit", tool |-> tool, code |-> c, line |-> << >>]
LineError(tool, ln) == [kind |-> "line", tool |-> tool, code |-> 0, line |-> ln]

\* output_lines[:5]
first_lines(ls) == SubSeq(ls, 1, IF Len(ls) < MAX_LINES THEN Len(ls) ELSE MAX_LINES)

\* the errors one checker adds, given what _run_tool returned for it
\* (not reached when code == -1)
new_errors(tool, c, out, err) ==
  IF c # 0 \/ err # << >>
  THEN LET output_lines == splitlines(out \o err)
       IN IF output_lines = << >> THEN << ExitError(tool, c) >>
          ELSE [k \in 1..Len(first_lines(output_lines)) |->
                  LineError(tool, first_lines(output_lines)[k])]
  ELSE << >>

\* the warnings one checker adds
new_warnings(tool, c) == IF c = NOT_FOUND THEN << tool >> ELSE << >>

\* code == -1 is tested first: such a checker adds no error
checker_errors(tool, c, out, err) ==
  IF c = NOT_FOUND THEN << >> ELSE new_errors(tool, c, out, err)

\* a success that warnings spoil as well
success_without_warnings(errs, warns) == errs = << >> /\ warns = << >>

\* success = not errors
success(errs, warns) == errs = << >>

\* lang_key.capitalize()
capitalize(l) ==
  CASE l = "python" -> "Python" [] l = "javascript" -> "Javascript" [] l = "go" -> "Go"
    [] l = "rust" -> "Rust" [] OTHER -> "C/c++"

\* AnalysisResult(...)
AnalysisResult(p, l, ok, errs, warns, fixed) ==
  [file_path |-> p, language |-> l, success |-> ok, errors |-> errs,
   warnings |-> warns, was_fixed |-> fixed]

UnsupportedError == [kind |-> "unsupported", tool |-> "", code |-> 0, line |-> << >>]

(* ------------------------------- state --------------------------------- *)

VARIABLES
  env,            \* what the tools and the file system of this run can do
  fix_mode,       \* config.fix_mode
  tool_map,       \* self.tool_map
  files_to_scan,  \* the paths handed to process_file, in submission order
  content,        \* the content of each file on disk
  backup,         \* the content of each file's .codex.bak sibling, or Absent
  locks,          \* ConcurrencyManager._locks: key -> lock instance
  lock_count,     \* the number of threading.Lock() instances created so far
  global_lock,    \* the task inside `with self._global_lock`, or NoTask
  held,           \* for each lock instance, the task that holds it, or NoTask
  pc,             \* where each task is
  idx,            \* the position of each task's current loop in the tool chain
  file_lock,      \* the lock instance get_lock returned to each task
  absent_seen,    \* what `abs_path not in self._locks` gave each task
  was_fixed,      \* process_file's was_fixed
  errors,         \* process_file's errors
  warnings,       \* process_file's warnings
  cur,            \* the _run_tool call each task is inside
  calls,          \* the _run_tool calls each task has finished, in order
  result,         \* the AnalysisResult each task returned
  completed,      \* the futures that are done, in completion order
  collected,      \* the futures as_completed has yielded
  finished,       \* how many futures as_completed found done when it began
  results,        \* scan_directory's results
  scan,           \* where scan_directory is
  tree,           \* the directories below the scan root
  pending,        \* the directories os.walk has still to yield, the next one first
  entered,        \* the directories os.walk has yielded
  run_pc,         \* where run_analysis is
  summary,        \* the RunSummary generate_report returned
  exported,       \* whether the JSON report was written
  history_file,   \* the runs recorded in the history file
  verdict         \* what run_analysis returned

fs == << content, backup >>
registry == << locks, lock_count, global_lock, held >>
config == << env, fix_mode, tool_map, files_to_scan >>
locals == << idx, file_lock, absent_seen, was_fixed, errors, warnings, cur, calls, result >>
pool == << completed, collected, finished, results, scan >>
walk == << tree, pending, entered >>
run == << run_pc, summary, exported, history_file, verdict >>
vars == << config, fs, registry, pc, locals, pool, walk, run >>

\* the tasks of this run: one per submitted path
Tasks == DOMAIN files_to_scan

\* the path task t was called with, its file and its tool chain
path(t) == files_to_scan[t]
file(t) == resolve(path(t))
tools(t) == chain(tool_map, path(t))

\* no _run_tool call in progress
NoCall == [i |-> 0, fixer |-> FALSE, found |-> FALSE, bk |-> FALSE, before |-> 0]

\* A tool that was not started
NotRun == [kind |-> "none", code |-> 0]

\* A checker only reads the file: the record of its call holds this in the
\* place of the contents of the file and of the backup.
Unobserved == Absent

\* what _run_tool returned for a checker, without the contents
unobserved(o) == [o EXCEPT !.content = Unobserved, !.backup = Unobserved]

\* the record of a finished _run_tool call: the call c, how the tool ended
\* (r), what a fixer left in the file (wrote), the stdout and stderr
\* process_file got from a checker (out, err), what _run_tool returned (o),
\* the content of the file and of its backup when a fixer call returned, and
\* the errors and the number of warnings process_file added for it
Finished(c, r, wrote, out, err, o, added, nwarn) ==
  [i |-> c.i, fixer |-> c.fixer, found |-> c.found, bk |-> c.bk, before |-> c.before,
   exit |-> r, wrote |-> wrote, out |-> out, err |-> err,
   quiet |-> (out = << >> /\ err = << >>),
   raised |-> o.raised, code |-> o.code, rolled_back |-> o.rolled_back,
   after |-> o.content, bak |-> o.backup, added |-> added, nerr |-> Len(added),
   nwarn |-> nwarn]

NoResult == [file_path |-> "", language |-> "", success |-> FALSE, errors |-> << >>,
             warnings |-> << >>, was_fixed |-> FALSE]

\* n different spellings, in any order
TaskLists(ps, n) ==
  { s \in [1..n -> ps] : \A i, j \in 1..n : i < j => s[i] # s[j] }

\* no task has started: the registry is empty, every future is pending and
\* scan_directory has no result yet
NoTaskStarted ==
  /\ locks = [k \in Paths |-> NoLock]
  /\ lock_count = 0
  /\ global_lock = NoTask
  /\ held = [l \in LockIds |-> NoTask]
  /\ pc = [t \in Futures |-> "queued"]
  /\ idx = [t \in Futures |-> 1]
  /\ file_lock = [t \in Futures |-> NoLock]
  /\ absent_seen = [t \in Futures |-> FALSE]
  /\ was_fixed = [t \in Futures |-> FALSE]
  /\ errors = [t \in Futures |-> << >>]
  /\ warnings = [t \in Futures |-> << >>]
  /\ cur = [t \in Futures |-> NoCall]
  /\ calls = [t \in Futures |-> << >>]
  /\ result = [t \in Futures |-> NoResult]
  /\ completed = << >>
  /\ collected = {}
  /\ finished = 0
  /\ results = << >>

\* a RunSummary, without its timestamp
RunSummary(total, passed, failed, fixed) ==
  [total_files |-> total, passed |-> passed, failed |-> failed, fixed |-> fixed]

NoSummary == RunSummary(0, 0, 0, 0)

\* run_analysis is inside scan_directory
InScan ==
  /\ run_pc = "scan_directory"
  /\ summary = NoSummary
  /\ exported = FALSE
  /\ history_file = << >>
  /\ verdict = "none"

\* the state after EnterpriseAnalyzer.__init__, with the walk over and the n
\* paths of files_to_scan submitted to the executor and no task started yet
InitWith(e, lists, maps) ==
  /\ env = e
  /\ fix_mode \in BOOLEAN
  /\ tool_map \in maps
  /\ files_to_scan \in lists
  /\ content = [f \in AbsPaths |-> Original]
  /\ backup \in { [f \in AbsPaths |-> IF f = "a.py" THEN b ELSE Absent] : b \in e.orphans }
  /\ NoTaskStarted
  /\ scan = "collecting"
  /\ tree = {}
  /\ pending = << >>
  /\ entered = {}
  /\ InScan

\* one file of each kind: with a tool chain, with a language that has no
\* tool chain, with an extension that has no language
CallPaths == {"a.py", "c.go", "d.txt"}

\* a run on one file, in any environment
Init == InitWith(AnyEnv, TaskLists(CallPaths, 1), ToolMaps)

(* ----------------------------- the pool -------------------------------- *)

\* a task is done when its future holds a result or an exception
done(t) == pc[t] \in {"returned", "raised"}
running(t) == pc[t] \notin {"queued", "returned", "raised"}

\* a worker thread takes the oldest queued task when one of the max_workers
\* threads is idle
worker_idle(t) ==
  /\ Cardinality({ u \in Tasks : running(u) }) < max_workers
  /\ \A u \in Tasks : u < t => pc[u] # "queued"

\* process_file returns r
returns(t, r) ==
  /\ pc' = [pc EXCEPT ![t] = "returned"]
  /\ result' = [result EXCEPT ![t] = r]
  /\ completed' = Append(completed, t)

\* an exception leaves process_file
raises(t) ==
  /\ pc' = [pc EXCEPT ![t] = "raised"]
  /\ result' = result
  /\ completed' = Append(completed, t)

\* a with block that keeps the lock when it is left
release_skipped(t) == held' = held

\* leaving `with file_lock`, normally or by an exception
release(t) == held' = [held EXCEPT ![file_lock[t]] = NoTask]

\* process_file up to the fix phase: the language lookup and the early return
Start(t) ==
  /\ pc[t] = "queued"
  /\ worker_idle(t)
  /\ IF unsupported(tool_map, path(t))
     THEN returns(t, AnalysisResult(path(t), "Unknown", FALSE, << UnsupportedError >>,
                                    << >>, FALSE))
     ELSE /\ pc' = [pc EXCEPT ![t] = IF fix_mode THEN "get_lock" ELSE "check_loop"]
          /\ UNCHANGED << result, completed >>
  /\ UNCHANGED << walk, run, config, fs, registry, idx, file_lock, absent_seen, was_fixed, errors,
                  warnings, cur, calls, collected, finished, results, scan >>

(* ------------------------------ get_lock ------------------------------- *)

\* the key without resolve()
abs_path_unresolved(p) == p

\* abs_path = str(file_path.resolve())
abs_path(p) == resolve(p)

\* a registry lock that never blocks
global_lock_ignored(g) == TRUE

\* `with self._global_lock` can be entered
global_lock_free(g) == g = NoTask

\* with self._global_lock:
GetLockEnter(t) ==
  /\ pc[t] = "get_lock"
  /\ global_lock_free(global_lock)
  /\ global_lock' = t
  /\ pc' = [pc EXCEPT ![t] = "lookup"]
  /\ UNCHANGED << walk, run, config, fs, locks, lock_count, held, locals, pool >>

\* if abs_path not in self._locks:
GetLockLookup(t) ==
  /\ pc[t] = "lookup"
  /\ absent_seen' = [absent_seen EXCEPT ![t] = (locks[abs_path(path(t))] = NoLock)]
  /\ pc' = [pc EXCEPT ![t] = "insert"]
  /\ UNCHANGED << walk, run, config, fs, registry, idx, file_lock, was_fixed, errors, warnings,
                  cur, calls, result, pool >>

\* self._locks[abs_path] = threading.Lock(); return self._locks[abs_path]
GetLockReturn(t) ==
  /\ pc[t] = "insert"
  /\ IF absent_seen[t]
     THEN /\ locks' = [locks EXCEPT ![abs_path(path(t))] = lock_count + 1]
          /\ lock_count' = lock_count + 1
     ELSE UNCHANGED << locks, lock_count >>
  /\ file_lock' = [file_lock EXCEPT ![t] = locks'[abs_path(path(t))]]
  /\ global_lock' = NoTask
  /\ pc' = [pc EXCEPT ![t] = "acquire"]
  /\ UNCHANGED << walk, run, config, fs, held, idx, absent_seen, was_fixed, errors, warnings,
                  cur, calls, result, pool >>

\* with file_lock:
Acquire(t) ==
  /\ pc[t] = "acquire"
  /\ held[file_lock[t]] = NoTask
  /\ held' = [held EXCEPT ![file_lock[t]] = t]
  /\ idx' = [idx EXCEPT ![t] = 1]
  /\ pc' = [pc EXCEPT ![t] = "fix_loop"]
  /\ UNCHANGED << walk, run, config, fs, locks, lock_count, global_lock, file_lock, absent_seen,
                  was_fixed, errors, warnings, cur, calls, result, pool >>

(* ----------------------------- fix phase ------------------------------- *)

\* the call _run_tool(file_path, tools(t)[j], is_fixer) as it starts
Call(t, j, is_fixer, found, bk) ==
  [i |-> j, fixer |-> is_fixer, found |-> found, bk |-> bk,
   before |-> IF is_fixer THEN content[file(t)] ELSE Unobserved]

\* One turn of `for tool_config in ...` inside `with file_lock`, up to the
\* point where _run_tool waits for the fixer: the loop ends and the lock is
\* released; or `tool_config['command'] + [str(file_path)]` raises TypeError,
\* which leaves process_file through the with block; or the tool is not found
\* and _run_tool returns -1; or the backup copy is attempted and the fixer is
\* started.
FixLoop(t) ==
  /\ pc[t] = "fix_loop"
  /\ LET j == next_fix(tools(t), idx[t]) IN
       IF j > Len(tools(t))
       THEN /\ release(t)
            /\ idx' = [idx EXCEPT ![t] = 1]
            /\ pc' = [pc EXCEPT ![t] = "check_loop"]
            /\ UNCHANGED << fs, cur, calls, result, completed >>
       ELSE IF tools(t)[j].command = "str"
       THEN /\ release(t)
            /\ raises(t)
            /\ UNCHANGED << fs, idx, cur, calls >>
       ELSE \/ /\ FALSE \in which(env)
               /\ calls' = [calls EXCEPT ![t] =
                    Append(@, Finished(Call(t, j, TRUE, FALSE, FALSE), NotRun,
                                       content[file(t)], << >>, << >>,
                                       Return(NOT_FOUND, content[file(t)], backup[file(t)], FALSE),
                                       << >>, 0))]
               /\ idx' = [idx EXCEPT ![t] = j + 1]
               /\ UNCHANGED << fs, held, pc, cur, result, completed >>
            \/ \E c \in copyfile(env.faults, content[file(t)], backup[file(t)]) :
               /\ backup' = [backup EXCEPT ![file(t)] = c.backup]
               /\ cur' = [cur EXCEPT ![t] = Call(t, j, TRUE, TRUE, c.ok)]
               /\ pc' = [pc EXCEPT ![t] = "fix_run"]
               /\ UNCHANGED << content, held, idx, calls, result, completed >>
  /\ UNCHANGED << walk, run, config, locks, lock_count, global_lock, file_lock, absent_seen,
                  was_fixed, errors, warnings, collected, finished, results, scan >>

\* what a tool in fixer role can leave in the file: anything, unless it could
\* not be started
fixer_writes(e, r, cont) == IF r.kind = "error" THEN { cont } ELSE e.writes

\* The fixer ends (subprocess.run returns or raises), _run_tool rolls back or
\* discards the backup and returns, and the loop goes on: `was_fixed = True;
\* break` and the lock is released when the code is 0, the next turn otherwise.
FixDone(t) ==
  /\ pc[t] = "fix_run"
  /\ \E r \in env.results : \E w \in fixer_writes(env, r, content[file(t)]) :
     \E o \in finish_run(env.faults, TRUE, r, w, backup[file(t)]) :
       /\ content' = [content EXCEPT ![file(t)] = o.content]
       /\ backup' = [backup EXCEPT ![file(t)] = o.backup]
       /\ calls' = [calls EXCEPT ![t] =
            Append(@, Finished(cur[t], r, w, << >>, << >>, o, << >>, 0))]
       /\ cur' = [cur EXCEPT ![t] = NoCall]
       /\ IF o.raised
          THEN /\ release(t)
               /\ raises(t)
               /\ UNCHANGED << idx, was_fixed >>
          ELSE IF o.code = 0
          THEN /\ was_fixed' = [was_fixed EXCEPT ![t] = TRUE]
               /\ release(t)
               /\ idx' = [idx EXCEPT ![t] = 1]
               /\ pc' = [pc EXCEPT ![t] = "check_loop"]
               /\ UNCHANGED << result, completed >>
          ELSE /\ idx' = [idx EXCEPT ![t] = cur[t].i + 1]
               /\ pc' = [pc EXCEPT ![t] = "fix_loop"]
               /\ UNCHANGED << held, was_fixed, result, completed >>
  /\ UNCHANGED << walk, run, config, locks, lock_count, global_lock, file_lock, absent_seen,
                  errors, warnings, collected, finished, results, scan >>

(* ---------------------------- check phase ------------------------------ *)

\* One turn of the second `for tool_config in ...`, up to the point where
\* _run_tool waits for the checker: the loop ends and process_file returns
\* its AnalysisResult; or the command cannot be built and TypeError leaves
\* process_file; or the tool is not found, which adds a warning; or the
\* checker is started.
CheckLoop(t) ==
  /\ pc[t] = "check_loop"
  /\ LET j == next_check(tools(t), idx[t]) IN
       IF j > Len(tools(t))
       THEN /\ returns(t, AnalysisResult(path(t), capitalize(lang_key(path(t))),
                                         success(errors[t], warnings[t]), errors[t],
                                         warnings[t],
                                         was_fixed[t]))
            /\ UNCHANGED << idx, errors, warnings, cur, calls >>
       ELSE IF tools(t)[j].command = "str"
       THEN /\ raises(t)
            /\ UNCHANGED << idx, errors, warnings, cur, calls >>
       ELSE \/ /\ FALSE \in which(env)
               /\ warnings' = [warnings EXCEPT ![t] =
                    @ \o new_warnings(tools(t)[j].tool, NOT_FOUND)]
               /\ errors' = [errors EXCEPT ![t] =
                    @ \o checker_errors(tools(t)[j].tool, NOT_FOUND, << >>, << >>)]
               /\ calls' = [calls EXCEPT ![t] =
                    Append(@, Finished(Call(t, j, FALSE, FALSE, FALSE), NotRun,
                                       Unobserved, << >>, << >>,
                                       Return(NOT_FOUND, Unobserved, Unobserved, FALSE),
                                       << >>, 1))]
               /\ idx' = [idx EXCEPT ![t] = j + 1]
               /\ UNCHANGED << pc, cur, result, completed >>
            \/ /\ cur' = [cur EXCEPT ![t] = Call(t, j, FALSE, TRUE, FALSE)]
               /\ pc' = [pc EXCEPT ![t] = "check_run"]
               /\ UNCHANGED << idx, errors, warnings, calls, result, completed >>
  /\ UNCHANGED << walk, run, config, fs, registry, file_lock, absent_seen, was_fixed,
                  collected, finished, results, scan >>

\* the stdout and stderr _run_tool returns for a tool that was started
returned_out(r, out) == IF r.kind = "exit" THEN out ELSE << >>
returned_err(r, err) ==
  CASE r.kind = "exit" -> err
    [] r.kind = "timeout" -> MsgTimeout
    [] OTHER -> MsgExecFailed

\* The checker ends, _run_tool goes through the statements after
\* subprocess.run or through an except clause with is_fixer=False and returns
\* (code, out, err), and process_file turns it into a warning or into errors.
CheckDone(t) ==
  /\ pc[t] = "check_run"
  /\ \E r \in env.results : \E out \in env.outs : \E err \in env.errs :
     \E o \in finish_run(env.faults, FALSE, r, content[file(t)], backup[file(t)]) :
       LET tool == tools(t)[cur[t].i].tool
           errs == checker_errors(tool, o.code, returned_out(r, out), returned_err(r, err))
           warns == new_warnings(tool, o.code)
       IN /\ content' = [content EXCEPT ![file(t)] = o.content]
          /\ backup' = [backup EXCEPT ![file(t)] = o.backup]
          /\ errors' = [errors EXCEPT ![t] = @ \o errs]
          /\ warnings' = [warnings EXCEPT ![t] = @ \o warns]
          /\ calls' = [calls EXCEPT ![t] =
               Append(@, Finished(cur[t], r, Unobserved,
                                  returned_out(r, out), returned_err(r, err),
                                  unobserved(o), errs, Len(warns)))]
  /\ cur' = [cur EXCEPT ![t] = NoCall]
  /\ idx' = [idx EXCEPT ![t] = cur[t].i + 1]
  /\ pc' = [pc EXCEPT ![t] = "check_loop"]
  /\ UNCHANGED << walk, run, config, registry, file_lock, absent_seen, was_fixed, result, pool >>

(* --------------------------- scan_directory ---------------------------- *)

\* The first step of as_completed(futures) takes the futures that are done
\* already; the scan thread can reach it when any number of them are.  One
\* done future is yielded first in either case, so only two or more count.
found_finished ==
  IF collected = {} THEN {0} \cup 2..Len(completed) ELSE {finished}

\* any done future that was not yielded yet
next_yielded_any(n) == { t \in Tasks \ collected : done(t) }

\* The futures as_completed can yield next when it found n of them done at
\* its first step: these n come out of a set, in any order; the others are
\* yielded in the order in which they complete.
next_yielded(n) ==
  LET early == { completed[k] : k \in 1..n } \ collected
  IN IF early # {} THEN early
     ELSE IF Cardinality(collected) < Len(completed)
     THEN { completed[Cardinality(collected) + 1] }
     ELSE {}

\* `for future in as_completed(futures): result = future.result()`: a done
\* future is yielded; its result is appended, or its exception is raised
\* again, inside `with ThreadPoolExecutor(...)`
Collect ==
  /\ scan = "collecting"
  /\ \E n \in found_finished : \E t \in next_yielded(n) :
       /\ finished' = n
       /\ collected' = collected \cup {t}
       /\ IF pc[t] = "returned"
          THEN /\ results' = Append(results, result[t])
               /\ scan' = scan
          ELSE /\ results' = results
               /\ scan' = "shutdown"
  /\ UNCHANGED << walk, run, config, fs, registry, pc, locals, completed >>

\* every future was yielded: the with block is left and results is returned
ScanReturn ==
  /\ scan = "collecting"
  /\ collected = Tasks
  /\ scan' = "returned"
  /\ UNCHANGED << walk, run, config, fs, registry, pc, locals, completed, collected, finished, results >>

\* the executor's __exit__ waits for the tasks that are left, then the
\* exception leaves scan_directory
ScanRaise ==
  /\ scan = "shutdown"
  /\ \A t \in Tasks : done(t)
  /\ scan' = "raised"
  /\ UNCHANGED << walk, run, config, fs, registry, pc, locals, completed, collected, finished, results >>

Next ==
  \/ \E t \in Tasks : Start(t)
  \/ \E t \in Tasks : GetLockEnter(t)
  \/ \E t \in Tasks : GetLockLookup(t)
  \/ \E t \in Tasks : GetLockReturn(t)
  \/ \E t \in Tasks : Acquire(t)
  \/ \E t \in Tasks : FixLoop(t)
  \/ \E t \in Tasks : FixDone(t)
  \/ \E t \in Tasks : CheckLoop(t)
  \/ \E t \in Tasks : CheckDone(t)
  \/ Collect
  \/ ScanReturn
  \/ ScanRaise

\* one process_file call at a time
Spec == Init /\ [][Next]_vars

\* a fixer and two checkers
TwoCheckerMap ==
  [python |-> << Tool("black", "list", FALSE, TRUE), Tool("pylint", "list", TRUE, FALSE),
                 Tool("mypy", "list", TRUE, FALSE) >>]

\* n different lines, each ended by a line break
RECURSIVE Numbered(_)
Numbered(n) ==
  IF n = 0 THEN << >>
  ELSE Numbered(n - 1) \o << << "1", "2", "3", "4", "5", "6", "7", "8", "9" >>[n], NL >>

\* texts of fewer, of exactly and of more lines than output_lines[:5] keeps
LongTexts == { Numbered(n) : n \in 0..(MAX_LINES + MaxErrLines) }

\* an environment whose tools print a lot: stdout can end without a line
\* break, so that the first line of stderr continues its last line
LoudEnv ==
  [faults |-> FALSE, missing |-> TRUE, results |-> RunResults, writes |-> {MaxContent},
   outs |-> { << >>, << "o" >> }, errs |-> LongTexts, orphans |-> {Absent}]

\* one call on a.py with tools that print a lot
SummaryInit == InitWith(LoudEnv, TaskLists({"a.py"}, 1), {TwoCheckerMap, StringCommandMap})

\* one process_file call whose checkers print up to MAX_LINES + MaxErrLines lines
SummarySpec == SummaryInit /\ [][Next]_vars

\* a run on NumFiles files with the built-in tool chain
PoolInit == InitWith(CalmEnv, TaskLists(PythonPaths, NumFiles), {DEFAULT_TOOL_MAP, StringCommandMap})

\* NumFiles process_file calls on the threads of the pool
PoolSpec == PoolInit /\ [][Next]_vars

\* the steps of the worker thread that runs task t
Worker(t) ==
  \/ Start(t)
  \/ GetLockEnter(t)
  \/ GetLockLookup(t)
  \/ GetLockReturn(t)
  \/ Acquire(t)
  \/ FixLoop(t)
  \/ FixDone(t)
  \/ CheckLoop(t)
  \/ CheckDone(t)

\* Every thread that can take a step takes one in the end: the worker
\* threads, whose tools end or time out, and the thread of scan_directory.
Fairness ==
  /\ \A t \in Futures : WF_vars(Worker(t))
  /\ WF_vars(Collect)
  /\ WF_vars(ScanReturn)
  /\ WF_vars(ScanRaise)

\* the pool of PoolSpec with fair scheduling
FairPoolSpec == PoolInit /\ [][Next]_vars /\ Fairness

(* ======================================================================= *)
(*                     the walk of scan_directory                          *)
(* ======================================================================= *)

\* The directories below the scan root are named by the sequence of names
\* that leads to them from the root; << >> is the root.  Every directory
\* holds the files of FileNames.

\* the depth of the deepest directory
MaxDepth == 3

\* config.skip_dirs: an entry of AppConfig.DEFAULT_SKIP
skip_dirs == {"node_modules"}

\* the names a directory can have
DirNames == {"pkg", "lib"} \cup skip_dirs
FileNames == {"a.py", "d.txt"}

DirPaths == UNION { [1..n -> DirNames] : n \in 0..MaxDepth }

\* d and the directories above it
ancestors(d) == { SubSeq(d, 1, n) : n \in 0..Len(d) }

\* the trees with at most two lowest directories
Trees == { ancestors(d) \cup ancestors(e) : d, e \in DirPaths }

\* the directories and the files os.scandir(d) lists
subdirs(d) == { e \in tree : Len(e) = Len(d) + 1 /\ SubSeq(e, 1, Len(d)) = d }
nondirs(d) == FileNames

\* a filter that keeps every directory
not_skipped_keep_all(ds) == ds

\* `[d for d in dirs if d not in self.config.skip_dirs]`
not_skipped(ds) == { e \in ds : e[Len(e)] \notin skip_dirs }

\* `if Path(f).suffix in self.ext_map`
eligible(fs_) == { f \in fs_ : suffix(f) \in DOMAIN ext_map }

\* the orders in which a set can be listed
orders(S) ==
  { s \in [1..Cardinality(S) -> S] : \A i, j \in 1..Cardinality(S) : i # j => s[i] # s[j] }

\* the state at `for root, dirs, files in os.walk(target)`
WalkInit ==
  /\ env = CalmEnv
  /\ fix_mode = FALSE
  /\ tool_map = DEFAULT_TOOL_MAP
  /\ files_to_scan = << >>
  /\ content = [f \in AbsPaths |-> Original]
  /\ backup = [f \in AbsPaths |-> Absent]
  /\ NoTaskStarted
  /\ scan = "walking"
  /\ tree \in Trees
  /\ pending = << << >> >>
  /\ entered = {}
  /\ InScan

\* One turn of `for root, dirs, files in os.walk(target)`: os.walk yields the
\* next directory with its listing, in any order; the loop body prunes dirs
\* in place and appends the eligible files; os.walk then descends into the
\* directories left in dirs before it goes on with the others.
WalkStep ==
  /\ scan = "walking"
  /\ pending # << >>
  /\ LET root == Head(pending) IN
       \E dirs \in orders(not_skipped(subdirs(root))) :
       \E files \in orders(eligible(nondirs(root))) :
         /\ entered' = entered \cup {root}
         /\ files_to_scan' =
              files_to_scan \o [k \in 1..Len(files) |-> root \o << files[k] >>]
         /\ pending' = dirs \o Tail(pending)
  /\ UNCHANGED << run, env, fix_mode, tool_map, fs, registry, pc, locals, pool, tree >>

\* the walk is over: files_to_scan is complete
WalkEnd ==
  /\ scan = "walking"
  /\ pending = << >>
  /\ scan' = "walked"
  /\ UNCHANGED << run, config, fs, registry, pc, locals, walk, completed, collected,
                  finished, results >>

WalkNext == WalkStep \/ WalkEnd

\* the walk of one tree
WalkSpec == WalkInit /\ [][WalkNext]_vars

(* ======================================================================= *)
(*                   run_analysis after scan_directory                     *)
(* ======================================================================= *)

\* the results scan_directory can return for the files ps: each file passed
\* or failed, and was fixed or not
ResultLists(ps) ==
  { [k \in 1..Len(ps) |->
       AnalysisResult(ps[k], "Python", ok[k],
                      IF ok[k] THEN << >> ELSE << ExitError("pylint", 1) >>,
                      << >>, fixed[k])] :
      ok \in [1..Len(ps) -> BOOLEAN], fixed \in [1..Len(ps) -> BOOLEAN] }

\* the runs an earlier history file can hold; << >> when the file is
\* missing or unreadable, which HistoryManager.load turns into []
Histories == { << >>, << RunSummary(1, 1, 0, 0) >>, << RunSummary(1, 0, 1, 0) >> }

\* sum(1 for r in results if ...)
count(rs, field) == Cardinality({ k \in 1..Len(rs) : rs[k][field] })

\* the state when scan_directory has ended inside run_analysis: it returned
\* one result per file, or an exception of a task left it
RunInit ==
  /\ env = CalmEnv
  /\ fix_mode \in BOOLEAN
  /\ tool_map = DEFAULT_TOOL_MAP
  /\ \E n \in 0..NumFiles : files_to_scan \in TaskLists(PythonPaths, n)
  /\ content = [f \in AbsPaths |-> Original]
  /\ backup = [f \in AbsPaths |-> Absent]
  /\ locks = [k \in Paths |-> NoLock]
  /\ lock_count = 0
  /\ global_lock = NoTask
  /\ held = [l \in LockIds |-> NoTask]
  /\ idx = [t \in Futures |-> 1]
  /\ file_lock = [t \in Futures |-> NoLock]
  /\ absent_seen = [t \in Futures |-> FALSE]
  /\ was_fixed = [t \in Futures |-> FALSE]
  /\ errors = [t \in Futures |-> << >>]
  /\ warnings = [t \in Futures |-> << >>]
  /\ cur = [t \in Futures |-> NoCall]
  /\ calls = [t \in Futures |-> << >>]
  /\ completed = [k \in 1..Len(files_to_scan) |-> k]
  /\ collected = 1..Len(files_to_scan)
  /\ finished = 0
  /\ \/ /\ scan = "returned"
        /\ results \in ResultLists(files_to_scan)
        /\ pc = [t \in Futures |-> IF t \in Tasks THEN "returned" ELSE "queued"]
     \/ /\ scan = "raised"
        /\ Len(files_to_scan) > 0
        /\ results = << >>
        /\ pc = [t \in Futures |-> IF t \in Tasks THEN "raised" ELSE "queued"]
  /\ result = [t \in Futures |-> IF t \in 1..Len(results) THEN results[t] ELSE NoResult]
  /\ tree = {}
  /\ pending = << >>
  /\ entered = {}
  /\ run_pc = "scan_directory"
  /\ summary = NoSummary
  /\ exported = FALSE
  /\ history_file \in Histories
  /\ verdict = "none"

\* an exception reaches `except Exception` of run_analysis
run_fails ==
  /\ verdict' = "False"
  /\ run_pc' = "done"

\* `results = analyzer.scan_directory(target_path)` returns or raises
ScanEnds ==
  /\ run_pc = "scan_directory"
  /\ IF scan = "raised"
     THEN run_fails
     ELSE /\ run_pc' = "generate_report"
          /\ verdict' = verdict
  /\ UNCHANGED << config, fs, registry, pc, locals, pool, walk, summary, exported,
                  history_file >>

\* generate_report: the totals; output_path.mkdir(exist_ok=True), which is
\* outside the try block and can raise; the JSON export, whose failure is
\* printed; the RunSummary
GenerateReport ==
  /\ run_pc = "generate_report"
  /\ LET total == Len(results)
         passed == count(results, "success")
         fixed == count(results, "was_fixed")
         failed == total - passed
     IN \/ /\ run_fails
           /\ UNCHANGED << summary, exported >>
        \/ /\ exported' \in BOOLEAN
           /\ summary' = RunSummary(total, passed, failed, fixed)
           /\ run_pc' = "compare_and_update_history"
           /\ verdict' = verdict
  /\ UNCHANGED << config, fs, registry, pc, locals, pool, walk, history_file >>

\* what HistoryManager.save can leave in the file: the new list, the old
\* content when the file cannot be opened, nothing readable when the dump
\* fails midway
save(old, history) == { history, old, << >> }

\* compare_and_update_history, then `return summary.failed == 0`
CompareAndUpdateHistory ==
  /\ run_pc = "compare_and_update_history"
  /\ history_file' \in save(history_file, Append(history_file, summary))
  /\ verdict' = IF summary.failed = 0 THEN "True" ELSE "False"
  /\ run_pc' = "done"
  /\ UNCHANGED << config, fs, registry, pc, locals, pool, walk, summary, exported >>

RunNext == ScanEnds \/ GenerateReport \/ CompareAndUpdateHistory

\* run_analysis from the end of scan_directory on
RunSpec == RunInit /\ [][RunNext]_vars

(* ======================================================================= *)
(*                              properties                                 *)
(* ======================================================================= *)

\* the finished _run_tool calls of task t
Calls(t) == { calls[t][k] : k \in 1..Len(calls[t]) }

\* the tool of call c was started and ended with return code 0
exited_zero(c) == c.found /\ c.exit.kind = "exit" /\ c.exit.code = 0

\* the tool of call c was started and failed: it ended with a non-zero return
\* code, it timed out, or executing it raised
tool_failed(c) == c.found /\ ~exited_zero(c)

\* task t has returned an AnalysisResult
returned(t) == pc[t] = "returned"

\* the extension of task t's file is not mapped to a language, or its
\* language has no tool chain in the tool map
no_tool_chain(t) ==
  \/ suffix(path(t)) \notin DOMAIN ext_map
  \/ ext_map[suffix(path(t))] \notin DOMAIN tool_map

(* ------------------------------- C1 ------------------------------------ *)

\* C1 as stated: for every fixer invocation of process_file that fails, the
\* content of the file when process_file returns equals the content the file
\* had immediately before that fixer ran.
C1_BackupInvariant ==
  \A t \in Tasks : returned(t) =>
    \A c \in Calls(t) : (c.fixer /\ tool_failed(c)) => content[file(t)] = c.before

\* C1 amended: for every fixer invocation that fails after its backup copy
\* was created, the content of the file when that _run_tool call returns
\* equals the content the file had immediately before that fixer ran.
C1_RestoredWhenBackedUp ==
  \A t \in Tasks : \A c \in Calls(t) :
    (c.fixer /\ tool_failed(c) /\ c.bk /\ ~c.raised) => c.after = c.before

\* a failed fixer had changed the file, had a backup, and was rolled back
C1_Witness ==
  \E t \in Tasks : \E c \in Calls(t) :
    c.fixer /\ tool_failed(c) /\ c.bk /\ ~c.raised /\ c.wrote # c.before /\ c.after = c.before

(* ------------------------------- C2 ------------------------------------ *)

\* C2: when the processing of one submitted file raises an unexpected
\* exception, scan_directory still returns one AnalysisResult per submitted
\* file and the exception does not leave the scan.
C2_ScanIsolation ==
  /\ scan # "raised"
  /\ scan = "returned" => Len(results) = Len(files_to_scan)

(* ------------------------------- C3 ------------------------------------ *)

\* task t is inside `with file_lock`, between acquiring and releasing it
in_fix_phase(t) == pc[t] \in {"fix_loop", "fix_run"}

\* C3: the fix phases of two process_file calls whose paths resolve to the
\* same absolute path never overlap.
C3_FixPhaseExclusion ==
  \A t, u \in Tasks :
    (t # u /\ file(t) = file(u)) => ~(in_fix_phase(t) /\ in_fix_phase(u))

\* two calls with two spellings of one file: one runs its fixer while the
\* other waits for the lock
C3_Witness ==
  \E t, u \in Tasks :
    /\ path(t) # path(u) /\ file(t) = file(u)
    /\ pc[t] = "fix_run" /\ pc[u] = "acquire"
    /\ held[file_lock[u]] = t

(* ------------------------------- C4 ------------------------------------ *)

\* every two get_lock calls that have returned got the same lock instance
\* exactly when their paths resolve to the same absolute path
same_lock_per_path ==
  \A t, u \in Tasks :
    (file_lock[t] # NoLock /\ file_lock[u] # NoLock) =>
      (file_lock[t] = file_lock[u] <=> file(t) = file(u))

\* an entry of _locks, once created, is neither replaced nor removed
entries_kept == \A k \in Paths : locks[k] # NoLock => locks'[k] = locks[k]

\* C4: under any interleaving of get_lock calls, calls for the same resolved
\* path return the same lock instance, calls for different resolved paths
\* return different instances, and an entry once created is never replaced
\* or removed.
C4_LockIdentity == [][entries_kept /\ same_lock_per_path']_vars

\* two calls with two spellings of one file hold the same instance, and a
\* second get_lock found the entry the first one had created
C4_Witness ==
  \E t, u \in Tasks :
    /\ path(t) # path(u) /\ file(t) = file(u)
    /\ file_lock[t] # NoLock /\ file_lock[t] = file_lock[u]
    /\ absent_seen[t] /\ ~absent_seen[u]

(* ------------------------------- C5 ------------------------------------ *)

\* C5: within one process_file call the fixer entries are tried in declared
\* order, and once a fixer invocation exits 0 no further fixer entry is
\* invoked for that file.
C5_AtMostOneFixer ==
  \A t \in Tasks : \A k, m \in 1..Len(calls[t]) :
    (k < m /\ calls[t][k].fixer /\ calls[t][m].fixer) =>
      /\ calls[t][k].i < calls[t][m].i
      /\ calls[t][m].found => ~exited_zero(calls[t][k])

(* ------------------------------- C6 ------------------------------------ *)

\* C6: for a file whose extension is not mapped to a language, or whose
\* language has no tool chain, process_file returns success=false,
\* fixed=false with the error "Unsupported language/extension", without
\* invoking a tool, acquiring a lock or creating a backup, in both modes.
C6_UnsupportedFile ==
  \A t \in Tasks : no_tool_chain(t) =>
    /\ pc[t] \in {"queued", "returned"}
    /\ calls[t] = << >> /\ cur[t] = NoCall
    /\ file_lock[t] = NoLock /\ locks[abs_path(path(t))] = NoLock
    /\ \A l \in LockIds : held[l] # t
    /\ backup[file(t)] = Absent /\ content[file(t)] = Original
    /\ returned(t) =>
         result[t] = AnalysisResult(path(t), "Unknown", FALSE, << UnsupportedError >>,
                                    << >>, FALSE)

\* process_file has returned for a file whose language has no tool chain,
\* in fix mode
C6_Witness ==
  \E t \in Tasks :
    /\ returned(t) /\ fix_mode
    /\ suffix(path(t)) = ".go" /\ no_tool_chain(t)
    /\ ~result[t].success

(* ------------------------------- C7 ------------------------------------ *)

\* C7: whenever a fixer invoked in the fix phase fails, the returned
\* AnalysisResult has success=false and its error list has an entry for
\* that fixer.
C7_FixerFailureIsError ==
  \A t \in Tasks : returned(t) =>
    \A c \in Calls(t) : (c.fixer /\ tool_failed(c)) =>
      /\ ~result[t].success
      /\ \E n \in 1..Len(result[t].errors) : result[t].errors[n].tool = tools(t)[c.i].tool

(* ------------------------------- C8 ------------------------------------ *)

\* C8: a checker adds a warning and no error if and only if its executable
\* was not found; every checker that ran and ended with a non-zero return
\* code, timed out or failed to execute adds at least one error.
C8_SoftVersusHard ==
  \A t \in Tasks : \A c \in Calls(t) : ~c.fixer =>
    /\ (c.nwarn > 0 /\ c.nerr = 0) <=> ~c.found
    /\ tool_failed(c) => c.nerr >= 1

(* ------------------------------- C9 ------------------------------------ *)

\* the checker of call c ran, exited 0 and printed nothing
clean(c) == exited_zero(c) /\ c.quiet

\* C9: for a supported file, if every checker that process_file called
\* exited 0 and printed nothing, the result has success=true; success is
\* true exactly when the error list is empty, whatever the warnings.
C9_CleanMeansSuccess ==
  \A t \in Tasks : (returned(t) /\ ~no_tool_chain(t)) =>
    /\ (\A c \in Calls(t) : ~c.fixer => clean(c)) => result[t].success
    /\ result[t].success <=> result[t].errors = << >>

\* a result with success=true although a fixer had failed, after a clean
\* checker
C9_Witness ==
  \E t \in Tasks :
    /\ returned(t) /\ result[t].success
    /\ \E c \in Calls(t) : ~c.fixer /\ clean(c)
    /\ \E c \in Calls(t) : c.fixer /\ tool_failed(c)

(* ------------------------------- C10 ----------------------------------- *)

\* C10: after a scan that ran to completion no backup exists for a file a
\* fixer was run on; when a fixer exits 0 and the checkers are clean, the
\* result has fixed=true, success=true and the backup does not exist when
\* process_file returns.
C10_NoSurvivingBackup ==
  /\ scan = "returned" =>
       \A t \in Tasks : (\E c \in Calls(t) : c.fixer /\ c.found) => backup[file(t)] = Absent
  /\ \A t \in Tasks :
       ( /\ returned(t)
         /\ \E c \in Calls(t) : c.fixer /\ exited_zero(c)
         /\ \A c \in Calls(t) : ~c.fixer => clean(c) ) =>
       /\ result[t].was_fixed /\ result[t].success
       /\ backup[file(t)] = Absent

(* ------------------------------- C11 ----------------------------------- *)

\* the error process_file adds for a line of a tool's message
timeout_error(tool) == LineError(tool, MsgTimeout)

\* the tool of call c was started and did not end within its timeout
timed_out(c) == c.found /\ c.exit.kind = "timeout"

\* C11: for every tool invocation that does not return within its timeout,
\* the AnalysisResult process_file returns holds a timeout-tagged error of
\* that tool, and if the tool was invoked as a fixer the content of the file
\* after the call equals its content before the call.
C11_TimeoutOutcome ==
  \A t \in Tasks : returned(t) =>
    \A c \in Calls(t) : timed_out(c) =>
      /\ \E n \in 1..Len(result[t].errors) :
           result[t].errors[n] = timeout_error(tools(t)[c.i].tool)
      /\ c.fixer => c.after = c.before

(* ------------------------------- C12 ----------------------------------- *)

\* every submitted file was processed once and has one result in the
\* returned sequence
one_result_per_file ==
  /\ Len(results) = Len(files_to_scan)
  /\ Len(completed) = Len(files_to_scan)
  /\ \A t \in Tasks :
       /\ Cardinality({ k \in 1..Len(completed) : completed[k] = t }) = 1
       /\ Cardinality({ k \in 1..Len(results) : results[k].file_path = path(t) }) = 1
       /\ \E k \in 1..Len(results) : results[k] = result[t]

\* C12 as stated: for every scan that completes, each file is submitted
\* exactly once and yields exactly one AnalysisResult, so the returned
\* sequence holds one result per file, in completion order.
C12_ExactlyOnce ==
  scan = "returned" =>
    /\ one_result_per_file
    /\ \A k \in 1..Len(results) : results[k] = result[completed[k]]

\* C12 amended: for every scan that completes, the returned sequence holds
\* one result per file; the results of the futures that were not done yet
\* when the iteration over as_completed began are in completion order.
C12_OnePerFileAsYielded ==
  scan = "returned" =>
    /\ one_result_per_file
    /\ \A k \in 1..Len(results) : k > finished => results[k] = result[completed[k]]

\* a completed scan whose first result belongs to the file that completed
\* second: both futures were done when the iteration began
C12_Witness ==
  /\ scan = "returned"
  /\ finished >= 2
  /\ results[1] = result[completed[2]]
  /\ results[1] # result[completed[1]]

(* ------------------------------- C13 ----------------------------------- *)

\* directory d is a directory of the skip-set or lies beneath one
pruned(d) == \E k \in 1..Len(d) : d[k] \in skip_dirs

\* the directory that holds the file with path f
parent(f) == SubSeq(f, 1, Len(f) - 1)

\* C13: a directory whose name is in the skip-set and that lies anywhere
\* below the scan root is never entered, and no file beneath it at any
\* depth is collected.
C13_Pruning ==
  /\ \A d \in entered : ~pruned(d)
  /\ \A k \in 1..Len(files_to_scan) : ~pruned(parent(files_to_scan[k]))

\* the walk is over; the tree has a directory of the skip-set two levels
\* below the root with a directory beneath it, and a sibling of the skipped
\* directory was entered and its file collected
C13_Witness ==
  /\ scan = "walked"
  /\ \E d \in tree :
       /\ Len(d) = 3 /\ d[2] \in skip_dirs /\ d[1] \notin skip_dirs /\ d[3] \notin skip_dirs
       /\ \E e \in entered : Len(e) = 2 /\ e[1] = d[1]
       /\ \E k \in 1..Len(files_to_scan) : Len(files_to_scan[k]) = 3

(* ------------------------------- C14 ----------------------------------- *)

\* the number of files whose result is not a success
failed_files == Cardinality({ k \in 1..Len(results) : ~results[k].success })

\* C14: run_analysis returns true exactly when zero files failed; a failure
\* while persisting history or while writing the JSON report, preparing its
\* output directory included, never changes that verdict.
C14_VerdictIndependence ==
  (run_pc = "done" /\ scan = "returned") => (verdict = "True" <=> failed_files = 0)

(* ------------------------------- C15 ----------------------------------- *)

\* the code _run_tool returns for a tool that ended as r, when nothing else
\* fails
own_code(r) ==
  CASE r.kind = "exit" -> r.code
    [] r.kind = "timeout" -> TIMEOUT
    [] OTHER -> EXEC_ERROR

\* fixer call c failed after its backup copy was created, and _run_tool
\* returned
rolled_back_call(c) == c.fixer /\ tool_failed(c) /\ c.bk /\ ~c.raised

\* C15 as stated: for every fixer invocation whose backup copy was created,
\* if the tool exits non-zero, times out or raises, then when _run_tool
\* returns the content equals the content before the invocation, the backup
\* no longer exists, and the returned code is respectively the tool's own
\* code, the timeout code or the execution-error code, with a rolled-back
\* annotation.
C15_RollbackWithBackup ==
  \A t \in Tasks : \A c \in Calls(t) : rolled_back_call(c) =>
    /\ c.after = c.before
    /\ c.bak = Absent
    /\ c.rolled_back
    /\ c.code = own_code(c.exit)

\* C15 amended: the same, but when the tool exited non-zero the returned
\* code is the tool's own code or the execution-error code (the latter when
\* the first attempt to restore the backup raised and the second one, in
\* `except Exception`, succeeded).
C15_RollbackRestores ==
  \A t \in Tasks : \A c \in Calls(t) : rolled_back_call(c) =>
    /\ c.after = c.before
    /\ c.bak = Absent
    /\ c.rolled_back
    /\ c.code \in {own_code(c.exit), EXEC_ERROR}
    /\ c.exit.kind # "exit" => c.code = own_code(c.exit)

\* a fixer that had a backup changed the file and timed out: the content is
\* restored, the backup is gone and the code is the timeout code
C15_Witness ==
  \E t \in Tasks : \E c \in Calls(t) :
    /\ rolled_back_call(c) /\ c.exit.kind = "timeout"
    /\ c.wrote # c.before /\ c.after = c.before
    /\ c.bak = Absent /\ c.code = TIMEOUT /\ c.rolled_back

(* ------------------------------- C16 ----------------------------------- *)

\* C16: when the backup copy of a fixer invocation could not be created and
\* the fixer fails, _run_tool does not write to the file, whose content
\* stays what the fixer left, and returns a non-zero code; also when an
\* orphaned backup of an earlier run is present at the backup path.
C16_NoBackupNoRollback ==
  \A t \in Tasks : \A c \in Calls(t) :
    (c.fixer /\ tool_failed(c) /\ ~c.bk /\ ~c.raised) =>
      /\ c.after = c.wrote
      /\ c.code # 0

(* ------------------------------- C17 ----------------------------------- *)

\* task t has left the fix phase, or had none
past_fix_phase(t) == pc[t] \in {"check_loop", "check_run", "returned", "raised"}

\* C17: in every process_file call, every fixer invocation has completed
\* and the file's lock is released before the first checker invocation
\* starts, whether the fix phase succeeded or failed, and no checker
\* invocation precedes a fixer invocation of the same call.
C17_FixBeforeCheck ==
  \A t \in Tasks :
    /\ past_fix_phase(t) => \A l \in LockIds : held[l] # t
    /\ \A k, m \in 1..Len(calls[t]) : (k < m /\ calls[t][m].fixer) => calls[t][k].fixer
    /\ (cur[t] # NoCall /\ cur[t].fixer) => \A c \in Calls(t) : c.fixer
    /\ (cur[t] # NoCall /\ ~cur[t].fixer) => pc[t] = "check_run"

\* a call in fix mode whose fixer failed and whose checker then ran, with
\* the lock it had taken free again
C17_Witness ==
  \E t \in Tasks :
    /\ fix_mode /\ returned(t)
    /\ file_lock[t] # NoLock /\ held[file_lock[t]] = NoTask
    /\ \E k, m \in 1..Len(calls[t]) :
         /\ k < m
         /\ calls[t][k].fixer /\ tool_failed(calls[t][k])
         /\ ~calls[t][m].fixer /\ calls[t][m].found

(* ------------------------------- C18 ----------------------------------- *)

\* the registry-wide lock is held only for the lookup-or-insert of get_lock,
\* by a task that neither holds nor awaits a per-file lock
registry_lock_brief ==
  \A t \in Tasks : global_lock = t =>
    /\ pc[t] \in {"lookup", "insert"}
    /\ \A l \in LockIds : held[l] # t

\* every submitted file has its AnalysisResult and scan_directory has
\* returned them
scan_completed == scan = "returned" /\ \A t \in Futures : returned(t)

\* C18: with tools that end or time out and fair scheduling, every submitted
\* file eventually produces its result and the scan terminates; the
\* registry-wide lock is never held while a per-file lock is held or
\* awaited; no worker waits forever for a lock, and every per-file lock that
\* is acquired is eventually released.
C18_RunToCompletion ==
  /\ []registry_lock_brief
  /\ <>scan_completed
  /\ \A t \in Futures : (pc[t] = "acquire") ~> (pc[t] # "acquire")
  /\ \A l \in LockIds : (held[l] # NoTask) ~> (held[l] = NoTask)

\* What holds of C18 whatever the tasks do: every future ends with a result
\* or an exception and scan_directory returns or raises, with the same
\* statements about the locks.
C18_Terminates ==
  /\ []registry_lock_brief
  /\ <>(scan \in {"returned", "raised"} /\ \A t \in Futures : done(t))
  /\ \A t \in Futures : (pc[t] = "acquire") ~> (pc[t] # "acquire")
  /\ \A l \in LockIds : (held[l] # NoTask) ~> (held[l] = NoTask)

(* ------------------------------- C19 ----------------------------------- *)

\* the checker of call c ran and reported a problem: a non-zero code or a
\* non-empty stderr
reports_problem(c) == ~c.fixer /\ c.found /\ (c.code # 0 \/ c.err # << >>)

\* the entries C19 gives such a checker: one entry with the exit code when
\* the combined output has no lines, its first 5 lines otherwise
summary_of(tool, c) ==
  LET lines == splitlines(c.out \o c.err)
      n == IF Len(lines) < 5 THEN Len(lines) ELSE 5
  IN IF lines = << >> THEN << ExitError(tool, c.code) >>
     ELSE [k \in 1..n |-> LineError(tool, lines[k])]

\* the checker entries of the tool chain of task t
check_entries(t) == { j \in 1..Len(tools(t)) : is_check_entry(tools(t)[j]) }

\* C19: each checker that reports a problem contributes between 1 and 5
\* error entries: one synthesized entry naming the exit code and the tool
\* when its combined output has no lines, otherwise the first min(5, n)
\* lines in order, each tagged with the tool; a result never holds more
\* than 5 errors per configured checker, and a failing checker does not
\* stop the remaining checkers from running.
C19_BoundedErrorSummary ==
  \A t \in Tasks :
    /\ \A c \in Calls(t) : reports_problem(c) =>
         /\ c.added = summary_of(tools(t)[c.i].tool, c)
         /\ Len(c.added) \in 1..5
    /\ returned(t) =>
         /\ Len(result[t].errors) <= 5 * Cardinality(check_entries(t))
         /\ \A j \in check_entries(t) : \E c \in Calls(t) : ~c.fixer /\ c.i = j

(* ------------------------------- C20 ----------------------------------- *)

\* C20: whenever a fixer invocation exits 0, the content of the file when
\* _run_tool returns is the content the fixer produced, the returned code
\* is 0 and process_file reports fixed=true; no failure while discarding
\* the backup restores the pre-fix content or turns the outcome into an
\* error code.
C20_SuccessfulFixKept ==
  \A t \in Tasks : \A c \in Calls(t) : (c.fixer /\ exited_zero(c)) =>
    /\ ~c.raised => (c.after = c.wrote /\ c.code = 0)
    /\ returned(t) => result[t].was_fixed

(* ------------------------------- C21 ----------------------------------- *)

\* _run_tool(file_path, tool_config, is_fixer=False) is waiting for its tool
checker_running(t) == pc[t] = "check_run"

\* _run_tool(file_path, tool_config, is_fixer=True) has made its backup copy
\* and has not yet rolled back or discarded it
fixer_in_progress(t) == pc[t] = "fix_run"

\* C21: at no time is a checker running on a file while a fixer call of
\* another concurrent process_file call, its backup and rollback steps
\* included, is in progress on the same resolved path.
C21_NoCheckMidFix ==
  \A t \in Tasks : \A u \in Tasks \ {t} :
    file(t) = file(u) => ~(checker_running(t) /\ fixer_in_progress(u))

(* ------------------------------- C22 ----------------------------------- *)

\* task t is inside get_lock or inside the `with file_lock` block
in_lock_code(t) ==
  pc[t] \in {"get_lock", "lookup", "insert", "acquire", "fix_loop", "fix_run"}

\* no call of _run_tool with is_fixer=True has been made, no task has asked
\* for a lock, the registry is empty, and every result has fixed = false
no_fix_activity ==
  /\ \A t \in Tasks : ~cur[t].fixer /\ \A c \in Calls(t) : ~c.fixer
  /\ \A t \in Tasks : ~in_lock_code(t) /\ file_lock[t] = NoLock
  /\ \A k \in Paths : locks[k] = NoLock
  /\ lock_count = 0 /\ global_lock = NoTask
  /\ \A l \in LockIds : held[l] = NoTask
  /\ \A t \in Tasks : returned(t) => ~result[t].was_fixed
  /\ \A k \in 1..Len(results) : ~results[k].was_fixed

\* fixed = true only with fix mode enabled and a fixer call of the same
\* process_file call whose tool exited 0
fixed_only_by_fixer ==
  \A t \in Tasks : (returned(t) /\ result[t].was_fixed) =>
    /\ fix_mode
    /\ \E c \in Calls(t) : c.fixer /\ exited_zero(c)

\* C22: with fix mode disabled, no step of any process_file call invokes a
\* tool in fixer role, creates or acquires a per-file lock, creates, restores
\* or deletes a backup file or changes the content of a file, and every
\* result has fixed = false; and fixed = true only if fix mode is enabled and
\* some fixer call of that process_file call exited 0.
C22_CheckOnlyIsReadOnly ==
  /\ [](~fix_mode => no_fix_activity)
  /\ [](fixed_only_by_fixer)
  /\ [][~fix_mode => (content' = content /\ backup' = backup /\ registry' = registry)]_vars

\* C22's case: check-only mode, a file whose tool chain has a fix entry and
\* whose backup path holds a file left by an earlier run, and a checker that
\* could not be executed, so that _run_tool went through `except Exception`;
\* process_file has returned.
C22_Witness ==
  \E t \in Tasks :
    /\ ~fix_mode /\ returned(t)
    /\ backup[file(t)] # Absent
    /\ \E j \in 1..Len(tools(t)) : is_fix_entry(tools(t)[j])
    /\ \E c \in Calls(t) : ~c.fixer /\ c.found /\ c.exit.kind = "error"

====
